---- MODULE Spec2Model ----
(***************************************************************************)
(* The parsing front end of concurrent-language: the Operator Table        *)
(* (src/parsing/operators.py), the operator resolution of the Visitor      *)
(* (src/parsing/parser.py, Visitor.visitInfix_call) and the Parser facade  *)
(* (Parser.parse).                                                         *)
(*                                                                         *)
(* A token text is a sequence of one-character strings, so that the        *)
(* regular expressions of the source are computed character by character.  *)
(* The grammar engine (ANTLR) is an external collaborator: a source text   *)
(* is represented by what the engine reports for it, namely the number of  *)
(* syntax errors, whether the lookahead after the rule is EOF, and the     *)
(* infix_call chain  e0 op1 e1 ... opn en  of the parse tree, given by the *)
(* texts of op1..opn.  The operands e0..en are infix-free expressions      *)
(* (literals, parenthesised expressions, calls); operand i is translated   *)
(* to the literal Integer(i).  Of the other rules the model has the prefix *)
(* call, the constructor call, the assignment and the type definition: the *)
(* engine reports the form of the tree, the text of its name token, its    *)
(* generic parameters, the kind of a type definition's body and the number *)
(* of arguments; argument i is translated to Integer(i) as well.           *)
(***************************************************************************)
EXTENDS Integers, Sequences, FiniteSets, TLC

VARIABLES
    OPERATOR_PRECEDENCE,          \* class attribute OperatorManager.OPERATOR_PRECEDENCE
    LEFT_ASSOCIATIVE_OPERATORS,   \* class attribute OperatorManager.LEFT_ASSOCIATIVE_OPERATORS
    NON_ASSOCIATIVE_OPERATORS,    \* class attribute OperatorManager.NON_ASSOCIATIVE_OPERATORS
    recursionlimit,               \* frames of visitInfix_call the interpreter's stack allows
    code,                         \* the source text, as the grammar engine reads it
    target,                       \* the target rule selector
    pc,                           \* position of Parser.parse: "start", "visit", "done"
    visitors,                     \* Visitor objects created by the current call
    depth,                        \* active frames of Visitor.visitInfix_call
    carry,                        \* the carry argument of the next frame
    raised,                       \* the exception raised in the current call, "" for none
    outcome,                      \* what the call gave its caller
    earlier,                      \* a completed earlier call, remembered by the caller
    visited,                      \* argument expressions the Visitor has translated
    query,                        \* a direct call of a classmethod of OperatorManager
    answer,                       \* what that classmethod returned
    self,                         \* the ASTNode a caller projects with to_json
    json                          \* what the calls of self.to_json() returned, in order

vars == <<OPERATOR_PRECEDENCE, LEFT_ASSOCIATIVE_OPERATORS, NON_ASSOCIATIVE_OPERATORS,
          recursionlimit, code, target, pc, visitors, depth, carry, raised, outcome,
          earlier, visited, query, answer, self, json>>

(***************************************************************************)
(* Bounds of the model.                                                    *)
(***************************************************************************)
\* Longest infix chain (number of operators) over the core tokens.
MaxOps == 3
\* Most generic parameters of a name.
MaxGenerics == 2
\* Most arguments of a constructor call.
MaxArguments == 2
\* Largest number of syntax errors the engine reports.
MaxErrors == 1
\* Frames the stack allows in the runtime specification (the interpreter's
\* recursion limit, scaled down to the chains of the model).
ShallowLimit == 2
\* The longest list a node of the JSON specification holds.
MaxItems == 2
\* The number of times a caller projects the same node.
MaxCalls == 2

(***************************************************************************)
(* Characters.                                                             *)
(***************************************************************************)
\* The character class of OPERATOR_REGEX: [&!+/\-^$<>@:*|%=.]
OperatorChars ==
    {"&", "!", "+", "/", "-", "^", "$", "<", ">", "@", ":", "*", "|", "%", "=", "."}

\* What \S refuses and str.strip() removes.
Whitespace == {" ", "\t", "\n", "\r"}

(***************************************************************************)
(* Operator Table: src/parsing/operators.py                                *)
(***************************************************************************)
LEFT == "LEFT"
RIGHT == "RIGHT"
NONE == "NONE"

\* Mutant of PrecedenceTable: `<=>` is ranked with the other comparisons.
PrecedenceTableComparisonsShared ==
    (<<"@">> :> 2) @@ (<<"*", "*">> :> 3) @@ (<<"*">> :> 4) @@ (<<"/">> :> 5) @@
    (<<"%">> :> 6) @@ (<<"+">> :> 7) @@ (<<"-">> :> 7) @@ (<<">", ">">> :> 8) @@
    (<<"<", "<">> :> 8) @@ (<<":", ":">> :> 9) @@ (<<"+", "+">> :> 9) @@
    (<<"-", "-">> :> 9) @@ (<<"<", "=", ">">> :> 11) @@ (<<"<">> :> 11) @@
    (<<"<", "=">> :> 11) @@ (<<">">> :> 11) @@ (<<">", "=">> :> 11) @@
    (<<"=", "=">> :> 11) @@ (<<"!", "=">> :> 11) @@ (<<"&">> :> 12) @@
    (<<"^">> :> 13) @@ (<<"|">> :> 14) @@ (<<"&", "&">> :> 15) @@
    (<<"|", "|">> :> 16) @@ (<<"|", ">">> :> 17) @@ (<<"$">> :> 18)

PrecedenceTable ==
    (<<"@">> :> 2) @@ (<<"*", "*">> :> 3) @@ (<<"*">> :> 4) @@ (<<"/">> :> 5) @@
    (<<"%">> :> 6) @@ (<<"+">> :> 7) @@ (<<"-">> :> 7) @@ (<<">", ">">> :> 8) @@
    (<<"<", "<">> :> 8) @@ (<<":", ":">> :> 9) @@ (<<"+", "+">> :> 9) @@
    (<<"-", "-">> :> 9) @@ (<<"<", "=", ">">> :> 10) @@ (<<"<">> :> 11) @@
    (<<"<", "=">> :> 11) @@ (<<">">> :> 11) @@ (<<">", "=">> :> 11) @@
    (<<"=", "=">> :> 11) @@ (<<"!", "=">> :> 11) @@ (<<"&">> :> 12) @@
    (<<"^">> :> 13) @@ (<<"|">> :> 14) @@ (<<"&", "&">> :> 15) @@
    (<<"|", "|">> :> 16) @@ (<<"|", ">">> :> 17) @@ (<<"$">> :> 18)

LeftAssociativeSet ==
    {<<"$">>, <<"@">>, <<":", ":">>, <<"*", "*">>, <<"+", "+">>, <<"-", "-">>}

NonAssociativeSet ==
    {<<"<">>, <<">">>, <<"<", "=">>, <<">", "=">>, <<"<", "=", ">">>, <<"=", "=">>,
     <<"!", "=">>}

\* Where `$` matches: at the end of s, or before a final newline.
EndOfText(s) == IF Len(s) > 0 /\ s[Len(s)] = "\n" THEN Len(s) - 1 ELSE Len(s)

\* re.match(OPERATOR_REGEX, s): one or more characters of the class, up to `$`.
MatchesOperatorRegex(s) ==
    /\ EndOfText(s) >= 1
    /\ \A i \in 1..EndOfText(s) : s[i] \in OperatorChars

check_operator(operator) == MatchesOperatorRegex(operator)

\* Mutant of get_precedence: the two sentinel ranks are exchanged.
get_precedenceSentinelsSwapped(operator) ==
    IF ~check_operator(operator) THEN -1
    ELSE IF operator \in DOMAIN OPERATOR_PRECEDENCE THEN OPERATOR_PRECEDENCE[operator]
    ELSE -2

\* Mutant of get_precedence: an operator the table does not name binds loosest.
get_precedenceUnknownLoosest(operator) ==
    IF ~check_operator(operator) THEN -2
    ELSE IF operator \in DOMAIN OPERATOR_PRECEDENCE THEN OPERATOR_PRECEDENCE[operator]
    ELSE 19

get_precedence(operator) ==
    IF ~check_operator(operator) THEN -2
    ELSE IF operator \in DOMAIN OPERATOR_PRECEDENCE THEN OPERATOR_PRECEDENCE[operator]
    ELSE -1

\* Mutant of get_associativity: a malformed token is not defaulted to LEFT.
get_associativityOfTablesOnly(operator) ==
    IF operator \in LEFT_ASSOCIATIVE_OPERATORS THEN LEFT
    ELSE IF operator \in NON_ASSOCIATIVE_OPERATORS THEN NONE
    ELSE RIGHT

get_associativity(operator) ==
    IF operator \in LEFT_ASSOCIATIVE_OPERATORS \/ ~check_operator(operator) THEN LEFT
    ELSE IF operator \in NON_ASSOCIATIVE_OPERATORS THEN NONE
    ELSE RIGHT

(***************************************************************************)
(* AST nodes: src/parsing/ast_nodes.py                                     *)
(***************************************************************************)
Integer(value) == [node |-> "Integer", value |-> value]

GenericVariable(id, type_instances) ==
    [node |-> "GenericVariable", id |-> id, type_instances |-> type_instances]

FunctionCall(function, arguments) ==
    [node |-> "FunctionCall", function |-> function, arguments |-> arguments]

Var(id) == GenericVariable(id, <<>>)

\* AtomicTypeEnum and the two instances AtomicType.INT, AtomicType.BOOL.
AtomicTypeEnum == {"INT", "BOOL"}
AtomicType(type) == [node |-> "AtomicType", type |-> type]

FunctionType(argument_types, return_type) ==
    [node |-> "FunctionType", argument_types |-> argument_types,
     return_type |-> return_type]

GenericType(id, type_variables) ==
    [node |-> "GenericType", id |-> id, type_variables |-> type_variables]

TupleType(types) == [node |-> "TupleType", types |-> types]

TypeItem(id, type) == [node |-> "TypeItem", id |-> id, type |-> type]

UnionTypeDefinition(variable, items) ==
    [node |-> "UnionTypeDefinition", variable |-> variable, items |-> items]

OpaqueTypeDefinition(variable, type) ==
    [node |-> "OpaqueTypeDefinition", variable |-> variable, type |-> type]

EmptyTypeDefinition(id) == [node |-> "EmptyTypeDefinition", id |-> id]

Assignee(id) == [node |-> "Assignee", id |-> id]

ParametricAssignee(assignee, generic_variables) ==
    [node |-> "ParametricAssignee", assignee |-> assignee,
     generic_variables |-> generic_variables]

GenericConstructor(id, type_instances) ==
    [node |-> "GenericConstructor", id |-> id, type_instances |-> type_instances]

ConstructorCall(constructor, arguments) ==
    [node |-> "ConstructorCall", constructor |-> constructor, arguments |-> arguments]

Assignment(assignee, expression) ==
    [node |-> "Assignment", assignee |-> assignee, expression |-> expression]

GenericTypeVariable(id, generic_variables) ==
    [node |-> "GenericTypeVariable", id |-> id, generic_variables |-> generic_variables]

(***************************************************************************)
(* Visitor: src/parsing/parser.py                                          *)
(***************************************************************************)
RECURSIVE LStrip(_)
LStrip(s) == IF Len(s) > 0 /\ s[1] \in Whitespace THEN LStrip(Tail(s)) ELSE s

RECURSIVE RStrip(_)
RStrip(s) ==
    IF Len(s) > 0 /\ s[Len(s)] \in Whitespace THEN RStrip(SubSeq(s, 1, Len(s) - 1))
    ELSE s

\* str.strip()
Strip(s) == RStrip(LStrip(s))

\* re.match(r"^__(\S+)__$", s)
MatchesDunder(s) ==
    LET e == EndOfText(s)
    IN  /\ e >= 5
        /\ s[1] = "_" /\ s[2] = "_" /\ s[e - 1] = "_" /\ s[e] = "_"
        /\ \A i \in 3..(e - 2) : s[i] \notin Whitespace

\* match.group(1)
DunderGroup(s) == SubSeq(s, 3, EndOfText(s) - 2)

\* Mutant of visitInfix_operator: the pattern is matched on the stripped text.
visitInfix_operatorOfStripped(text) ==
    IF MatchesDunder(Strip(text)) THEN DunderGroup(Strip(text)) ELSE Strip(text)

visitInfix_operator(text) ==
    IF MatchesDunder(text) THEN DunderGroup(text) ELSE Strip(text)

\* self.visit(ctx.infix_free_expr()) of the i-th operand of the chain.
Operand(i) == Integer(i)

\* carry = ("id", lambda x: x).  A partial tree builder is the chain of the
\* lambdas that were wrapped around the identity, innermost first; each
\* lambda is the closure of its frame's operator, left and tree.
InitialCarry == [parent_operator |-> <<"i", "d">>, tree |-> <<>>]

\* Calling a builder: the last closure is the outermost lambda.
RECURSIVE Apply(_, _)
Apply(tree, x) ==
    IF tree = <<>> THEN x
    ELSE LET f == tree[Len(tree)]
             inner == SubSeq(tree, 1, Len(tree) - 1)
         IN  IF f.kind = "rotate"
             THEN FunctionCall(GenericVariable(f.operator, <<>>),
                               <<Apply(inner, f.left), x>>)
             ELSE Apply(inner, FunctionCall(GenericVariable(f.operator, <<>>),
                                            <<f.left, x>>))

\* The test that raises VisitorError("... is non-associative").
NonAssociativeChain(parent_operator, operator) ==
    /\ operator = parent_operator
    /\ get_associativity(operator) = NONE

\* Mutant of MakesRoot: the comparison of the ranks is turned around.
MakesRootReversed(parent_operator, operator) ==
    \/ get_precedence(parent_operator) > get_precedence(operator)
    \/ /\ operator = parent_operator
       /\ get_associativity(operator) = RIGHT

\* Mutant of MakesRoot: the associativity of a repeated operator is ignored.
MakesRootByRankOnly(parent_operator, operator) ==
    get_precedence(parent_operator) < get_precedence(operator)

\* Mutant of MakesRoot: an operator of the same rank becomes the root as well.
MakesRootOnTie(parent_operator, operator) ==
    \/ get_precedence(parent_operator) <= get_precedence(operator)
    \/ /\ operator = parent_operator
       /\ get_associativity(operator) = RIGHT

\* Mutant of MakesRoot: every incoming operator becomes the root.
MakesRootAlways(parent_operator, operator) == TRUE

\* The test that makes the incoming operator the root of the new tree.
MakesRoot(parent_operator, operator) ==
    \/ get_precedence(parent_operator) < get_precedence(operator)
    \/ /\ operator = parent_operator
       /\ get_associativity(operator) = RIGHT

\* Mutant of NextCarry: a nested call takes the first operand of the chain.
NextCarryOfFirstOperand(c, left, operator) ==
    IF MakesRoot(c.parent_operator, operator)
    THEN [parent_operator |-> operator,
          tree |-> Append(c.tree, [kind |-> "rotate", operator |-> operator, left |-> left])]
    ELSE [parent_operator |-> c.parent_operator,
          tree |-> Append(c.tree, [kind |-> "nest", operator |-> operator,
                                   left |-> Operand(0)])]

\* The carry handed to the next frame.
NextCarry(c, left, operator) ==
    IF MakesRoot(c.parent_operator, operator)
    THEN [parent_operator |-> operator,
          tree |-> Append(c.tree, [kind |-> "rotate", operator |-> operator, left |-> left])]
    ELSE [parent_operator |-> c.parent_operator,
          tree |-> Append(c.tree, [kind |-> "nest", operator |-> operator, left |-> left])]

\* Visitor.visitInfix_call on the chain ops from its k-th operator on, as the
\* recursion of the source: the completed tree, or the VisitorError raised.
RECURSIVE visitInfix_call(_, _, _)
visitInfix_call(ops, k, c) ==
    LET operator == visitInfix_operator(ops[k])
        next == NextCarry(c, Operand(k - 1), operator)
    IN  IF NonAssociativeChain(c.parent_operator, operator)
        THEN [kind |-> "VisitorError"]
        ELSE IF k = Len(ops)
        THEN [kind |-> "AST", node |-> Apply(next.tree, Operand(k))]
        ELSE visitInfix_call(ops, k + 1, next)

(***************************************************************************)
(* The name tokens of the grammar.  The grammar is not part of the sources *)
(* of the Visitor; the two token classes follow the specification of the   *)
(* assignee: plain identifiers (the names of underscores among them) and   *)
(* operator-identifiers `__<op>__` whose <op> passes the shape check.      *)
(***************************************************************************)
Letters ==
    {"a", "b", "c", "d", "e", "f", "g", "h", "i", "j", "k", "l", "m", "n", "o", "p",
     "q", "r", "s", "t", "u", "v", "w", "x", "y", "z", "A", "B", "C", "D", "E", "F",
     "G", "H", "I", "J", "K", "L", "M", "N", "O", "P", "Q", "R", "S", "T", "U", "V",
     "W", "X", "Y", "Z"}

Digits == {"0", "1", "2", "3", "4", "5", "6", "7", "8", "9"}

\* Mutant of operator_id: every wrapped text is an operator-identifier.
operator_idOfAnyWrappedText(text) == MatchesDunder(text)

\* ctx.operator_id() is not None: the name token is `__<op>__`.
operator_id(text) ==
    /\ Len(text) >= 5
    /\ text[1] = "_" /\ text[2] = "_"
    /\ text[Len(text) - 1] = "_" /\ text[Len(text)] = "_"
    /\ check_operator(SubSeq(text, 3, Len(text) - 2))

\* The name token is a plain identifier.
identifier(text) ==
    /\ Len(text) >= 1
    /\ text[1] \in Letters \cup {"_"}
    /\ \A i \in 1..Len(text) : text[i] \in Letters \cup Digits \cup {"_", "'"}

(***************************************************************************)
(* Visitor: the prefix call, the constructor call, the assignment and the  *)
(* type definition.  A visit gives the node it returns, or the error it    *)
(* raises, and the number of argument expressions it translated.           *)
(***************************************************************************)
Raises(exception, n) == [kind |-> exception, visited |-> n]
Returns(node, n) == [kind |-> "AST", node |-> node, visited |-> n]

\* self.visit(ctx.expr_list()): n arguments.
Arguments(n) == [i \in 1..n |-> Operand(i - 1)]

\* Mutant of visitOperator_id: the whole text is the id.
visitOperator_idOfWholeText(text) == text

\* Lines 60-61.
visitOperator_id(text) == DunderGroup(text)

\* Lines 57-58.
visitId(text) == text

\* Mutant of visitPrefix_call: the operator is not checked.
visitPrefix_callUnchecked(text) ==
    Returns(FunctionCall(Var(visitInfix_operator(text)), <<Operand(0)>>), 1)

\* Lines 193-198.
visitPrefix_call(text) ==
    LET operator == visitInfix_operator(text)
    IN  IF ~check_operator(operator)
        THEN Raises("VisitorError", 0)
        ELSE Returns(FunctionCall(Var(operator), <<Operand(0)>>), 1)

\* Lines 83-89; a generic parameter T is the type instance GenericType(T, []).
visitGeneric_instance(c) ==
    IF operator_id(c.name)
    THEN GenericVariable(visitOperator_id(c.name), <<>>)
    ELSE GenericVariable(visitId(c.name),
                         [i \in DOMAIN c.generics |-> GenericType(c.generics[i], <<>>)])

\* Lines 314-318.
visitGeneric_constructor(c) ==
    LET generic_instance == visitGeneric_instance(c)
    IN  GenericConstructor(generic_instance.id, generic_instance.type_instances)

\* Mutant of visitConstructor_call: the arguments are translated first.
visitConstructor_callArgumentsFirst(c) ==
    LET constructor == visitGeneric_constructor(c)
    IN  IF check_operator(constructor.id)
        THEN Raises("VisitorError", c.arguments)
        ELSE Returns(ConstructorCall(constructor, Arguments(c.arguments)), c.arguments)

\* Lines 320-325.
visitConstructor_call(c) ==
    LET constructor == visitGeneric_constructor(c)
    IN  IF check_operator(constructor.id)
        THEN Raises("VisitorError", 0)
        ELSE Returns(ConstructorCall(constructor, Arguments(c.arguments)), c.arguments)

\* Lines 97-105; the head of the tree is given by the alternative of
\* fn_type_head that the engine chose and by the translation of its child.
visitFn_type_head(head) ==
    IF head.alternative = "return_type"
    THEN IF head.type.node = "TupleType" THEN head.type.types ELSE <<head.type>>
    ELSE <<head.type>>

\* Lines 107-110.
visitFn_type(c) == Returns(FunctionType(visitFn_type_head(c.head), c.tail), 0)

\* Lines 236-237.
visitNon_generic_assignee(text) == Assignee(text)

\* Lines 239-244.
visitGeneric_assignee(c) ==
    ParametricAssignee(visitNon_generic_assignee(c.name), c.generics)

\* Lines 246-253.
visitAssignee(c) ==
    IF operator_id(c.name)
    THEN ParametricAssignee(Assignee(visitOperator_id(c.name)), <<>>)
    ELSE IF c.name = <<"_", "_">>
    THEN ParametricAssignee(Assignee(<<"_", "_">>), <<>>)
    ELSE visitGeneric_assignee(c)

\* Lines 255-258.
visitAssignment(c) == Returns(Assignment(visitAssignee(c), Operand(0)), 1)

\* Lines 327-331.
visitGeneric_typevar(c) ==
    LET assignee == visitGeneric_assignee(c)
    IN  GenericTypeVariable(assignee.assignee.id, assignee.generic_variables)

\* The body `()` of an opaque definition and the items `{ A | B T }` of a union.
OpaqueBody == TupleType(<<>>)
NoType == [node |-> "None"]
UnionBody ==
    <<TypeItem(<<"A">>, NoType), TypeItem(<<"B">>, GenericType(<<"T">>, <<>>))>>

\* Mutant of visitType_def: an empty definition keeps no watch on generics.
visitType_defEmptyUnchecked(c) ==
    LET type_variable == visitGeneric_typevar(c)
    IN  IF c.body = "type_instance"
        THEN Returns(OpaqueTypeDefinition(type_variable, OpaqueBody), 0)
        ELSE IF c.body = "empty_def"
        THEN Returns(EmptyTypeDefinition(type_variable.id), 0)
        ELSE Returns(UnionTypeDefinition(type_variable, UnionBody), 0)

\* Lines 341-356.
visitType_def(c) ==
    LET type_variable == visitGeneric_typevar(c)
    IN  IF c.body = "type_instance"
        THEN Returns(OpaqueTypeDefinition(type_variable, OpaqueBody), 0)
        ELSE IF c.body = "empty_def"
        THEN IF type_variable.generic_variables # <<>>
             THEN Raises("VisitorError", 0)
             ELSE Returns(EmptyTypeDefinition(type_variable.id), 0)
        ELSE Returns(UnionTypeDefinition(type_variable, UnionBody), 0)

(***************************************************************************)
(* Outcomes of Parser.parse.                                               *)
(***************************************************************************)
NoCall == [kind |-> "pending"]
ReturnNone == [kind |-> "None"]
ReturnAST(node) == [kind |-> "AST", node |-> node]
Escapes(exception) == [kind |-> "exception", exception |-> exception]

\* parser.ruleNames, as far as the model selects targets.
ruleNames == {"expr", "assignment", "type_def", "type_instance"}

\* The rule under which the engine reads a text as a tree of the given form.
RuleOf(form) ==
    CASE form = "assignment" -> "assignment"
      [] form = "type_def" -> "type_def"
      [] form = "fn_type" -> "type_instance"
      [] OTHER -> "expr"

\* Targets the caller passes: a grammar rule and a string that is no rule.
Targets == {"expr", "no rule"}

(***************************************************************************)
(* Inputs.                                                                 *)
(***************************************************************************)
AlphabeticToken == <<"_", "_", "a", "d", "d", "_", "_">>
UnknownToken == <<"<", "!", ">">>

NamedTokens == DOMAIN PrecedenceTable

CoreTokens ==
    {<<"*">>, <<"/">>, <<"+">>, <<"-">>, <<":", ":">>, <<"+", "+">>, <<"=", "=">>,
     <<"<">>, <<"|", "|">>, <<"$">>, UnknownToken, AlphabeticToken}

RuntimeTokens == {<<"+">>, <<"=", "=">>}

\* A second valid operator that the table does not name.
OtherUnknownToken == <<"&", "&", "$", "&">>

UnknownOperatorTokens == {UnknownToken, OtherUnknownToken}

\* The operator `__id__`, whose name is the name of the initial carry.
SentinelToken == <<"_", "_", "i", "d", "_", "_">>

\* Operator tokens of five and of six underscores, a token between blanks,
\* a wrapped name between blanks and a wrapped name before a newline.
EdgeTokens ==
    {<<"_", "_", "_", "_", "_">>, <<"_", "_", "_", "_", "_", "_">>,
     <<" ", "+", " ">>, <<"+", " ">>,
     <<" ", "_", "_", "a", "d", "d", "_", "_", " ">>,
     <<"_", "_", "a", "d", "d", "_", "_", "\n">>}

\* Strings a caller hands to the classmethods of OperatorManager.
DirectOperators ==
    NamedTokens \cup CoreTokens \cup EdgeTokens \cup
    {OtherUnknownToken, <<>>, <<"a", "d", "d">>, <<"i", "d">>, <<"7">>, <<"(">>,
     <<")">>, <<"_">>, <<" ">>, <<"\n">>, <<"?", "?">>, <<"+", "a">>, <<"a", "+">>,
     <<"+", "1">>, <<"+", "(">>, <<"+", "_">>, <<" ", "+">>, <<"+", " ", "+">>,
     <<"+", "\t">>, <<"+", "\n">>, <<"<", "=", "\n">>, <<"+", "\n", "\n">>,
     <<"\n", "+">>, <<".">>, <<"=">>}

Methods == {"check_operator", "get_precedence", "get_associativity"}

NoQuery == [method |-> "", operator |-> <<>>]
NoAnswer == [kind |-> "pending"]
\* No caller holds a node to project.
NoNode == [node |-> "None"]
Returned(value) == [kind |-> "returned", value |-> value]

SeqsUpTo(S, n) == UNION {[1..k -> S] : k \in 1..n}

\* Chains of up to MaxOps operators over the core tokens, and every single
\* operator and every pair of operators of the whole table.
Chains ==
    SeqsUpTo(CoreTokens, MaxOps)
        \cup SeqsUpTo(NamedTokens \cup CoreTokens \cup {OtherUnknownToken, SentinelToken}, 2)
        \cup SeqsUpTo(EdgeTokens, 1)

RuntimeChains == SeqsUpTo(RuntimeTokens, MaxOps)

\* What the engine reports for a text that is read as a tree of one form.
Tree(forms, chains, names, generics, bodies, arguments) ==
    [form : forms, ops : chains, name : names, generics : generics, body : bodies,
     arguments : arguments, errors : 0..MaxErrors, eof : BOOLEAN]

Texts(chains) == Tree({"infix_call"}, chains, {<<>>}, {<<>>}, {""}, {0})

\* `__<op>__`
Wrap(op) == <<"_", "_">> \o op \o <<"_", "_">>

PrefixTokens == CoreTokens \cup EdgeTokens \cup {<<"+", "+", "+", "+">>, OtherUnknownToken}

ConstructorNames ==
    {<<"I", "n", "t", "e", "g", "e", "r">>, <<"C", "o", "n", "s">>, AlphabeticToken,
     Wrap(<<"^">>), Wrap(<<"+">>), Wrap(UnknownToken), Wrap(<<"?", "?">>)}

AssigneeNames ==
    {Wrap(op) : op \in NamedTokens \cup UnknownOperatorTokens}
        \cup {<<"a">>, <<"f", "'">>, AlphabeticToken, <<"_">>, <<"_", "_">>,
              <<"_", "_", "_", "_", "_">>, <<"0">>, Wrap(<<"?", "?">>),
              Wrap(<<"$", " ", "$">>), Wrap(<<"+", "a">>), Wrap(<<"+", "(">>)}

TypeNames == {<<"N", "o", "n", "e">>, <<"M", "a", "y", "b", "e">>}

GenericLists == UNION {[1..k -> {<<"T">>, <<"U">>}] : k \in 0..MaxGenerics}

\* Types that the head and the tail of a function type are made of.
SimpleTypes ==
    {AtomicType("INT"), AtomicType("BOOL"), GenericType(<<"T">>, <<>>), TupleType(<<>>)}

TupleTypes == {TupleType(types) : types \in UNION {[1..k -> SimpleTypes] : k \in 0..MaxArguments}}

\* The heads of function types: a bare type `a`, `(a, b)`, `(a,)`, `()` under
\* the alternative return_type, and a type in parentheses `(a)`, `(a -> b)`,
\* `((a, b))` under the alternative type_instance.
Heads ==
    [alternative : {"return_type"}, type : SimpleTypes \cup TupleTypes]
        \cup [alternative : {"type_instance"},
              type : SimpleTypes \cup TupleTypes
                        \cup {FunctionType(<<AtomicType("INT")>>, AtomicType("BOOL"))}]

FnTypeTexts ==
    [form : {"fn_type"}, ops : {<<>>}, name : {<<>>}, generics : {<<>>}, body : {""},
     arguments : {0}, head : Heads, tail : {AtomicType("INT"), TupleType(<<>>)},
     errors : 0..MaxErrors, eof : BOOLEAN]

\* The engine reports a syntax error for a name that is of neither class.
NameRefused(c) ==
    CASE c.form \in {"assignment", "constructor_call"} ->
             ~operator_id(c.name) /\ ~identifier(c.name)
      [] c.form = "type_def" -> ~identifier(c.name)
      [] OTHER -> FALSE

\* The texts of the calls on the Visitor's other rules, and `x op y`.
VisitorTexts ==
    {c \in Texts(SeqsUpTo(NamedTokens \cup CoreTokens, 1))
            \cup Tree({"prefix_call"}, {<<>>}, PrefixTokens, {<<>>}, {""}, {1})
            \cup Tree({"constructor_call"}, {<<>>}, ConstructorNames, GenericLists, {""},
                      1..MaxArguments)
            \cup Tree({"assignment"}, {<<>>}, AssigneeNames, {<<>>}, {""}, {1})
            \cup Tree({"type_def"}, {<<>>}, TypeNames, GenericLists,
                      {"type_instance", "empty_def", "union_def"}, {0})
            \cup FnTypeTexts :
        NameRefused(c) => c.errors > 0}

\* The texts of the repeated calls: chains the grammar engine accepts.
RuntimeTexts == {c \in Texts(RuntimeChains) : c.errors = 0 /\ c.eof}

(***************************************************************************)
(* Parser.parse: src/parsing/parser.py                                     *)
(***************************************************************************)
\* Mutant of SyntaxRejected: both conditions are required.
SyntaxRejectedBoth(c) == c.errors > 0 /\ ~c.eof

\* Line 381: the engine reported a syntax error or left input unconsumed.
SyntaxRejected(c) == c.errors > 0 \/ ~c.eof

\* Mutant of ClassAttributesKept: a step records the operator "+" in a table.
ClassAttributesExtended ==
    /\ LEFT_ASSOCIATIVE_OPERATORS' = LEFT_ASSOCIATIVE_OPERATORS \cup {<<"+">>}
    /\ UNCHANGED <<OPERATOR_PRECEDENCE, NON_ASSOCIATIVE_OPERATORS>>

\* No statement of the source assigns a class attribute of OperatorManager.
ClassAttributesKept ==
    UNCHANGED <<OPERATOR_PRECEDENCE, LEFT_ASSOCIATIVE_OPERATORS, NON_ASSOCIATIVE_OPERATORS>>

\* Lines 374-383: the grammar engine runs, then the checks before the Visitor.
Parse ==
    /\ pc = "start"
    /\ IF target \notin ruleNames
       THEN /\ pc' = "done"
            /\ outcome' = ReturnNone
            /\ UNCHANGED visitors
       ELSE IF SyntaxRejected(code)
       THEN /\ pc' = "done"
            /\ outcome' = ReturnNone
            /\ UNCHANGED visitors
       ELSE /\ pc' = "visit"
            /\ visitors' = visitors + 1
            /\ UNCHANGED outcome
    /\ ClassAttributesKept
    /\ UNCHANGED <<recursionlimit, code, target, depth, carry, raised, earlier>>
    /\ UNCHANGED <<visited, query, answer, self, json>>

\* One frame of Visitor.visitInfix_call, with the handler of Parser.parse
\* around it: lines 150-191 and 384-388.
VisitInfixCall ==
    /\ pc = "visit"
    /\ code.form = "infix_call"
    /\ LET k == depth + 1
           left == Operand(k - 1)
           operator == visitInfix_operator(code.ops[k])
           next == NextCarry(carry, left, operator)
       IN  IF depth >= recursionlimit
           THEN \* the call needs one frame more than the stack allows
                /\ raised' = "RecursionError"
                /\ outcome' = Escapes("RecursionError")
                /\ pc' = "done"
                /\ UNCHANGED <<depth, carry, visited>>
           ELSE IF NonAssociativeChain(carry.parent_operator, operator)
           THEN \* left is translated before the test
                /\ raised' = "VisitorError"
                /\ outcome' = ReturnNone
                /\ pc' = "done"
                /\ visited' = visited + 1
                /\ UNCHANGED <<depth, carry>>
           ELSE IF k = Len(code.ops)
           THEN \* left, then the right node
                /\ outcome' = ReturnAST(Apply(next.tree, Operand(k)))
                /\ pc' = "done"
                /\ depth' = k
                /\ carry' = next
                /\ visited' = visited + 2
                /\ UNCHANGED raised
           ELSE /\ depth' = k
                /\ carry' = next
                /\ visited' = visited + 1
                /\ UNCHANGED <<pc, raised, outcome>>
    /\ ClassAttributesKept
    /\ UNCHANGED <<recursionlimit, code, target, visitors, earlier>>
    /\ UNCHANGED <<query, answer, self, json>>

\* The end of a visit that is one frame: what it returned is the result of
\* Parser.parse, a VisitorError is caught by the handler of lines 384-388.
Finish(result) ==
    /\ pc' = "done"
    /\ visited' = visited + result.visited
    /\ IF result.kind = "AST"
       THEN outcome' = ReturnAST(result.node) /\ UNCHANGED raised
       ELSE /\ raised' = result.kind
            /\ outcome' = IF result.kind = "VisitorError" THEN ReturnNone
                           ELSE Escapes(result.kind)
    /\ ClassAttributesKept
    /\ UNCHANGED <<recursionlimit, code, target, visitors, depth, carry, earlier,
                   query, answer, self, json>>

\* Visitor.visitPrefix_call, lines 193-198.
VisitPrefixCall ==
    /\ pc = "visit"
    /\ code.form = "prefix_call"
    /\ Finish(visitPrefix_call(code.name))

\* Visitor.visitConstructor_call, lines 320-325.
VisitConstructorCall ==
    /\ pc = "visit"
    /\ code.form = "constructor_call"
    /\ Finish(visitConstructor_call(code))

\* Visitor.visitAssignment, lines 255-258.
VisitAssignment ==
    /\ pc = "visit"
    /\ code.form = "assignment"
    /\ Finish(visitAssignment(code))

\* Visitor.visitType_def, lines 341-356.
VisitTypeDef ==
    /\ pc = "visit"
    /\ code.form = "type_def"
    /\ Finish(visitType_def(code))

\* Visitor.visitFn_type, lines 107-110.
VisitFnType ==
    /\ pc = "visit"
    /\ code.form = "fn_type"
    /\ Finish(visitFn_type(code))

\* The caller calls Parser.parse again; it may remember the call that ended.
CallAgain ==
    /\ pc = "done"
    /\ \E c \in RuntimeTexts, t \in Targets, remember \in BOOLEAN :
          /\ code' = c
          /\ target' = t
          /\ earlier' = IF remember
                        THEN [code |-> code, target |-> target, outcome |-> outcome]
                        ELSE earlier
    /\ pc' = "start"
    /\ visitors' = 0
    /\ depth' = 0
    /\ carry' = InitialCarry
    /\ raised' = ""
    /\ outcome' = NoCall
    /\ visited' = 0
    /\ ClassAttributesKept
    /\ UNCHANGED <<recursionlimit, query, answer, self, json>>

NoCode ==
    [form |-> "", ops |-> <<>>, name |-> <<>>, generics |-> <<>>, body |-> "",
     arguments |-> 0, errors |-> 0, eof |-> TRUE]

NoEarlier == [code |-> <<>>, target |-> "", outcome |-> NoCall]

InitCall ==
    /\ OPERATOR_PRECEDENCE = PrecedenceTable
    /\ LEFT_ASSOCIATIVE_OPERATORS = LeftAssociativeSet
    /\ NON_ASSOCIATIVE_OPERATORS = NonAssociativeSet
    /\ target \in Targets
    /\ pc = "start"
    /\ visitors = 0
    /\ depth = 0
    /\ carry = InitialCarry
    /\ raised = ""
    /\ outcome = NoCall
    /\ earlier = NoEarlier
    /\ visited = 0
    /\ query = NoQuery
    /\ answer = NoAnswer
    /\ self = NoNode
    /\ json = <<>>

\* One call, on a stack that is deep enough for every chain of the model.
Init ==
    /\ InitCall
    /\ code \in Texts(Chains)
    /\ recursionlimit = MaxOps

Next == Parse \/ VisitInfixCall

Spec == Init /\ [][Next]_vars

\* Repeated calls on a stack that is too shallow for the longest chains.
InitRuntime ==
    /\ InitCall
    /\ code \in RuntimeTexts
    /\ recursionlimit = ShallowLimit

NextRuntime == Parse \/ VisitInfixCall \/ CallAgain

SpecRuntime == InitRuntime /\ [][NextRuntime]_vars

\* One call under any of the rules of the model.
InitVisitor ==
    /\ OPERATOR_PRECEDENCE = PrecedenceTable
    /\ LEFT_ASSOCIATIVE_OPERATORS = LeftAssociativeSet
    /\ NON_ASSOCIATIVE_OPERATORS = NonAssociativeSet
    /\ recursionlimit = MaxOps
    /\ code \in VisitorTexts
    /\ target \in {RuleOf(code.form), "no rule"}
    /\ pc = "start"
    /\ visitors = 0
    /\ depth = 0
    /\ carry = InitialCarry
    /\ raised = ""
    /\ outcome = NoCall
    /\ earlier = NoEarlier
    /\ visited = 0
    /\ query = NoQuery
    /\ answer = NoAnswer
    /\ self = NoNode
    /\ json = <<>>

NextVisitor ==
    \/ Parse
    \/ VisitInfixCall
    \/ VisitPrefixCall
    \/ VisitConstructorCall
    \/ VisitAssignment
    \/ VisitTypeDef
    \/ VisitFnType

SpecVisitor == InitVisitor /\ [][NextVisitor]_vars

(***************************************************************************)
(* Direct calls of the classmethods of OperatorManager.                    *)
(***************************************************************************)
\* OperatorManager.<method>(operator), lines 45-63.
CallOperatorManager ==
    /\ query # NoQuery
    /\ answer = NoAnswer
    /\ answer' = Returned(
           CASE query.method = "check_operator" -> check_operator(query.operator)
             [] query.method = "get_precedence" -> get_precedence(query.operator)
             [] query.method = "get_associativity" -> get_associativity(query.operator))
    /\ ClassAttributesKept
    /\ UNCHANGED <<recursionlimit, code, target, pc, visitors, depth, carry, raised,
                   outcome, earlier, visited, query, self, json>>

\* No call of Parser.parse is under way; a caller asks the table one question.
InitOperators ==
    /\ OPERATOR_PRECEDENCE = PrecedenceTable
    /\ LEFT_ASSOCIATIVE_OPERATORS = LeftAssociativeSet
    /\ NON_ASSOCIATIVE_OPERATORS = NonAssociativeSet
    /\ recursionlimit = MaxOps
    /\ code = NoCode
    /\ target = ""
    /\ pc = "idle"
    /\ visitors = 0
    /\ depth = 0
    /\ carry = InitialCarry
    /\ raised = ""
    /\ outcome = NoCall
    /\ earlier = NoEarlier
    /\ visited = 0
    /\ query \in [method : Methods, operator : DirectOperators]
    /\ answer = NoAnswer
    /\ self = NoNode
    /\ json = <<>>

NextOperators == CallOperatorManager

SpecOperators == InitOperators /\ [][NextOperators]_vars

(***************************************************************************)
(* The JSON projection: src/parsing/ast_nodes.py, lines 11-53.             *)
(* Every Python value carries its runtime type.  An ASTNode is a record    *)
(* with the field node (its class) and one field per dataclass field; any  *)
(* other value is a record with the field py (its type) and its repr.      *)
(***************************************************************************)
PyStr(value) == [py |-> "str", value |-> value]
PyInt(value) == [py |-> "int", value |-> value]
PyBool(value) == [py |-> "bool", value |-> value]
PyNone == [py |-> "NoneType"]
PyList(items) == [py |-> "list", items |-> items]
PyDict(entries) == [py |-> "dict", entries |-> entries]

\* isinstance(value, ASTNode)
IsASTNode(value) == "node" \in DOMAIN value

\* type(value).__name__
TypeOf(value) == IF IsASTNode(value) THEN value.node ELSE value.py

\* A member of AtomicTypeEnum: enum.auto() numbers the members from 1.
AtomicTypeEnumMember(name) ==
    [node |-> "AtomicTypeEnum", name |-> name, value |-> IF name = "INT" THEN "1" ELSE "2"]

Boolean(value) == [node |-> "Boolean", value |-> value]

ElementAccess(expression, index) ==
    [node |-> "ElementAccess", expression |-> expression, index |-> index]

TypedAssignee(assignee, type) ==
    [node |-> "TypedAssignee", assignee |-> assignee, type |-> type]

IfExpression(condition, true_block, false_block) ==
    [node |-> "IfExpression", condition |-> condition, true_block |-> true_block,
     false_block |-> false_block]

MatchItem(type_name, assignee) ==
    [node |-> "MatchItem", type_name |-> type_name, assignee |-> assignee]

MatchBlock(matches, block) == [node |-> "MatchBlock", matches |-> matches, block |-> block]

MatchExpression(subject, blocks) ==
    [node |-> "MatchExpression", subject |-> subject, blocks |-> blocks]

TupleExpression(expressions) == [node |-> "TupleExpression", expressions |-> expressions]

FunctionDefinition(parameters, return_type, body) ==
    [node |-> "FunctionDefinition", parameters |-> parameters,
     return_type |-> return_type, body |-> body]

Block(assignments, expression) ==
    [node |-> "Block", assignments |-> assignments, expression |-> expression]

TransparentTypeDefinition(variable, type) ==
    [node |-> "TransparentTypeDefinition", variable |-> variable, type |-> type]

Program(definitions) == [node |-> "Program", definitions |-> definitions]

\* Annotations, as typing.get_origin and typing.get_args see them: a class has
\* no arguments, list[X] has the one argument X, a Union has its alternatives.
Class(name) == [origin |-> "class", name |-> name, args |-> <<>>]
ListOf(type_) == [origin |-> "list", args |-> <<type_>>]
UnionOf(names) == [origin |-> "Union", args |-> names]
Inferred == [origin |-> "None"]

Range(s) == {s[i] : i \in DOMAIN s}

Id == Class("str")

TypeInstance == UnionOf(<<"FunctionType", "GenericType", "TupleType", "AtomicType">>)

Expression ==
    UnionOf(<<"FunctionCall", "Integer", "Boolean", "ElementAccess", "GenericVariable",
              "IfExpression", "MatchExpression", "TupleExpression", "FunctionDefinition",
              "ConstructorCall">>)

Definition ==
    UnionOf(<<"UnionTypeDefinition", "OpaqueTypeDefinition", "EmptyTypeDefinition",
              "TransparentTypeDefinition", "Assignment">>)

\* Optional[X] is Union[X, None]; a Union inside a Union is flattened.
Optional(type_) ==
    UnionOf((IF type_.origin = "Union" THEN type_.args ELSE <<type_.name>>)
            \o <<"NoneType">>)

Field(attr, type_) == [attr |-> attr, type |-> type_]

\* __match_args__ of a dataclass with its annotations, in declaration order.
match_args(class) ==
    CASE class = "FunctionType" ->
           <<Field("argument_types", ListOf(TypeInstance)),
             Field("return_type", TypeInstance)>>
      [] class = "GenericType" ->
           <<Field("id", Id), Field("type_variables", ListOf(TypeInstance))>>
      [] class = "TupleType" -> <<Field("types", ListOf(TypeInstance))>>
      [] class = "AtomicType" -> <<Field("type", Class("AtomicTypeEnum"))>>
      [] class = "TypeItem" ->
           <<Field("id", Id), Field("type", Optional(TypeInstance))>>
      [] class = "UnionTypeDefinition" ->
           <<Field("variable", Class("GenericTypeVariable")),
             Field("items", ListOf(Class("TypeItem")))>>
      [] class = "OpaqueTypeDefinition" ->
           <<Field("variable", Class("GenericTypeVariable")),
             Field("type", TypeInstance)>>
      [] class = "EmptyTypeDefinition" -> <<Field("id", Id)>>
      [] class = "Assignee" -> <<Field("id", Id)>>
      [] class = "ParametricAssignee" ->
           <<Field("assignee", Class("Assignee")),
             Field("generic_variables", ListOf(Id))>>
      [] class = "TypedAssignee" ->
           <<Field("assignee", Class("Assignee")), Field("type", TypeInstance)>>
      [] class = "FunctionCall" ->
           <<Field("function", Expression), Field("arguments", ListOf(Expression))>>
      [] class = "Integer" -> <<Field("value", Class("int"))>>
      [] class = "Boolean" -> <<Field("value", Class("bool"))>>
      [] class = "ElementAccess" ->
           <<Field("expression", Expression), Field("index", Class("int"))>>
      [] class = "GenericVariable" ->
           <<Field("id", Id), Field("type_instances", ListOf(TypeInstance))>>
      [] class = "IfExpression" ->
           <<Field("condition", Expression), Field("true_block", Class("Block")),
             Field("false_block", Class("Block"))>>
      [] class = "MatchItem" ->
           <<Field("type_name", Class("str")),
             Field("assignee", Optional(Class("Assignee")))>>
      [] class = "MatchBlock" ->
           <<Field("matches", ListOf(Class("MatchItem"))),
             Field("block", Class("Block"))>>
      [] class = "MatchExpression" ->
           <<Field("subject", Expression),
             Field("blocks", ListOf(Class("MatchBlock")))>>
      [] class = "TupleExpression" -> <<Field("expressions", ListOf(Expression))>>
      [] class = "FunctionDefinition" ->
           <<Field("parameters", ListOf(Class("TypedAssignee"))),
             Field("return_type", TypeInstance), Field("body", Class("Block"))>>
      [] class = "GenericConstructor" ->
           <<Field("id", Id), Field("type_instances", ListOf(TypeInstance))>>
      [] class = "ConstructorCall" ->
           <<Field("constructor", Class("GenericConstructor")),
             Field("arguments", ListOf(Expression))>>
      [] class = "Assignment" ->
           <<Field("assignee", Class("ParametricAssignee")),
             Field("expression", Expression)>>
      [] class = "Block" ->
           <<Field("assignments", ListOf(Class("Assignment"))),
             Field("expression", Expression)>>
      [] class = "GenericTypeVariable" ->
           <<Field("id", Id), Field("generic_variables", ListOf(Id))>>
      [] class = "TransparentTypeDefinition" ->
           <<Field("variable", Class("GenericTypeVariable")),
             Field("type", TypeInstance)>>
      [] class = "Program" -> <<Field("definitions", ListOf(Definition))>>

\* SUBSTITUTIONS.get(attr, attr), lines 12 and 19.
SubstitutionsKeepEveryName(attr) == attr

SUBSTITUTIONS(attr) == IF attr = "type" THEN "type_" ELSE attr

\* The test of lines 34-38: the value is wrapped in its class name.
AddsWrapperUnderEveryUnion(value_type, type_) ==
    /\ type_.origin = "Union"
    /\ value_type \in Range(type_.args)

AddsWrapper(value_type, type_) ==
    /\ type_.origin = "Union"
    /\ value_type \in Range(type_.args)
    /\ Range(type_.args) # {"NoneType", value_type}

\* Lines 44-49: the annotation of the elements of a list.
ElementType(type_) ==
    IF Len(type_.args) = 1 THEN type_.args[1] ELSE Inferred

\* AtomicTypeEnum.to_json, lines 91-92.
AtomicTypeEnum_to_jsonOfValue(member) == PyInt(member.value)

AtomicTypeEnum_to_json(member) == PyStr(member.name)

RECURSIVE to_json(_), convert_to_json(_, _)

\* ASTNode.to_json, lines 14-26; a later attribute overwrites an earlier one
\* that is emitted under the same key.
to_json(node) ==
    IF node.node = "AtomicTypeEnum" THEN AtomicTypeEnum_to_json(node)
    ELSE LET fields == match_args(node.node)
             key(i) == SUBSTITUTIONS(fields[i].attr)
             last(k) == CHOOSE i \in DOMAIN fields :
                            /\ key(i) = k
                            /\ \A j \in DOMAIN fields : key(j) = k => j <= i
         IN  PyDict([k \in {key(i) : i \in DOMAIN fields} |->
                        convert_to_json(node[fields[last(k)].attr],
                                        fields[last(k)].type)])

\* ASTNode.convert_to_json, lines 28-53; a value of no listed type falls off
\* the end of the function, which returns None.
convert_to_json(value, declared) ==
    LET value_type == TypeOf(value)
        type_ == IF declared = Inferred THEN Class(value_type) ELSE declared
    IN  IF IsASTNode(value)
        THEN IF AddsWrapper(value_type, type_)
             THEN PyDict([k \in {value_type} |->
                             convert_to_json(value, Class(value_type))])
             ELSE to_json(value)
        ELSE IF value.py = "list"
        THEN PyList([i \in DOMAIN value.items |->
                        convert_to_json(value.items[i], ElementType(type_))])
        ELSE IF value.py \in {"str", "NoneType", "int", "bool"} THEN value
        ELSE PyNone

\* Nodes a caller builds, as the tests of ast_nodes_test.py do.
Lists(S, n) == {PyList(items) : items \in {<<>>} \cup SeqsUpTo(S, n)}

JsonIds == {PyStr("x"), PyStr("T")}

JsonAtomicTypes == {AtomicType(AtomicTypeEnumMember(name)) : name \in AtomicTypeEnum}

JsonSimpleTypes ==
    JsonAtomicTypes \cup {TupleType(PyList(<<>>)), GenericType(PyStr("T"), PyList(<<>>))}

JsonTypes ==
    JsonSimpleTypes
    \cup {TupleType(types) : types \in Lists(JsonSimpleTypes, MaxItems)}
    \cup {FunctionType(arguments, return_type) :
              arguments \in Lists(JsonAtomicTypes, MaxItems),
              return_type \in JsonSimpleTypes}
    \cup {GenericType(PyStr("T"), types) : types \in Lists(JsonAtomicTypes, 1)}

JsonSimpleExpressions ==
    {Integer(PyInt("0")), Boolean(PyBool("True")), GenericVariable(PyStr("x"), PyList(<<>>))}

JsonAssignees == {Assignee(PyStr("x"))}

JsonAssignments ==
    {Assignment(ParametricAssignee(assignee, generics), expression) :
         assignee \in JsonAssignees, generics \in Lists({PyStr("T")}, 1),
         expression \in JsonSimpleExpressions}

JsonBlocks ==
    {Block(assignments, expression) :
         assignments \in Lists(JsonAssignments, 1),
         expression \in JsonSimpleExpressions}

JsonMatchItems ==
    {MatchItem(PyStr("A"), assignee) : assignee \in {PyNone} \cup JsonAssignees}

JsonTypeItems ==
    {TypeItem(PyStr("A"), type) : type \in {PyNone} \cup JsonAtomicTypes}

TheBlock == Block(PyList(<<>>), Integer(PyInt("0")))

JsonExpressions ==
    JsonSimpleExpressions
    \cup {FunctionCall(function, arguments) :
              function \in JsonSimpleExpressions,
              arguments \in Lists(JsonSimpleExpressions, MaxItems)}
    \cup {TupleExpression(expressions) :
              expressions \in Lists(JsonSimpleExpressions, MaxItems)}
    \cup {ElementAccess(expression, PyInt("0")) : expression \in JsonSimpleExpressions}
    \cup {GenericVariable(PyStr("x"), types) : types \in Lists(JsonSimpleTypes, 1)}
    \cup {IfExpression(condition, block, TheBlock) :
              condition \in JsonSimpleExpressions, block \in JsonBlocks}
    \cup {MatchExpression(Integer(PyInt("0")), PyList(<<MatchBlock(matches, TheBlock)>>)) :
              matches \in Lists(JsonMatchItems, MaxItems)}
    \cup {FunctionDefinition(PyList(<<TypedAssignee(assignee, type)>>), type, TheBlock) :
              assignee \in JsonAssignees, type \in JsonSimpleTypes}
    \cup {ConstructorCall(GenericConstructor(PyStr("C"), types), arguments) :
              types \in Lists(JsonAtomicTypes, 1),
              arguments \in Lists(JsonSimpleExpressions, 1)}

TheTypeVariable == GenericTypeVariable(PyStr("T"), PyList(<<>>))

JsonDefinitions ==
    {UnionTypeDefinition(TheTypeVariable, items) : items \in Lists(JsonTypeItems, MaxItems)}
    \cup {OpaqueTypeDefinition(TheTypeVariable, type) : type \in JsonSimpleTypes}
    \cup {TransparentTypeDefinition(TheTypeVariable, type) : type \in JsonSimpleTypes}
    \cup {EmptyTypeDefinition(PyStr("T"))}
    \cup JsonAssignments

JsonPrograms ==
    {Program(definitions) :
         definitions \in Lists({EmptyTypeDefinition(PyStr("T")),
                                OpaqueTypeDefinition(TheTypeVariable,
                                                     TupleType(PyList(<<>>)))}
                               \cup JsonAssignments, MaxItems)}

JsonNodes ==
    {AtomicTypeEnumMember(name) : name \in AtomicTypeEnum}
    \cup JsonTypes \cup JsonExpressions \cup JsonAssignees \cup JsonBlocks
    \cup JsonMatchItems \cup JsonTypeItems \cup JsonDefinitions \cup JsonPrograms

\* to_json assigns no attribute of the node or of a descendant.
NodeRenumbered ==
    self' = IF self.node = "Integer" THEN Integer(PyInt("1")) ELSE self

NodeKept == UNCHANGED self

\* A caller projects the node: self.to_json().
ToJson ==
    /\ self # NoNode
    /\ Len(json) < MaxCalls
    /\ json' = Append(json, to_json(self))
    /\ NodeKept
    /\ ClassAttributesKept
    /\ UNCHANGED <<recursionlimit, code, target, pc, visitors, depth, carry, raised,
                   outcome, earlier, visited, query, answer>>

InitJson ==
    /\ OPERATOR_PRECEDENCE = PrecedenceTable
    /\ LEFT_ASSOCIATIVE_OPERATORS = LeftAssociativeSet
    /\ NON_ASSOCIATIVE_OPERATORS = NonAssociativeSet
    /\ recursionlimit = MaxOps
    /\ code = NoCode
    /\ target = ""
    /\ pc = "idle"
    /\ visitors = 0
    /\ depth = 0
    /\ carry = InitialCarry
    /\ raised = ""
    /\ outcome = NoCall
    /\ earlier = NoEarlier
    /\ visited = 0
    /\ query = NoQuery
    /\ answer = NoAnswer
    /\ self \in JsonNodes
    /\ json = <<>>

NextJson == ToJson

SpecJson == InitJson /\ [][NextJson]_vars

(***************************************************************************)
(* Properties.                                                             *)
(***************************************************************************)
\* The grammar engine reported a syntax error or left input after the rule.
EngineRejects == code.errors > 0 \/ ~code.eof

\* The grammar engine accepted the text under a rule of the grammar.
Accepted == target \in ruleNames /\ ~EngineRejects

\* Parser.parse returned the translation of the whole chain.
Translated == pc = "done" /\ Accepted /\ outcome.kind = "AST"

\* Parser.parse returned None because the Visitor raised VisitorError.
Rejected == pc = "done" /\ Accepted /\ outcome = ReturnNone /\ raised = "VisitorError"

IsCall(t) == t.node = "FunctionCall"
OperatorOf(t) == t.function.id
Call2(operator, a, b) == FunctionCall(GenericVariable(operator, <<>>), <<a, b>>)

\* The operators of the chain, as the Visitor names them.
Names(ops) == [i \in 1..Len(ops) |-> visitInfix_operator(ops[i])]

AllNamed(ops) == \A i \in 1..Len(ops) : ops[i] \in NamedTokens

\* No call has, as a direct argument, a call to a strictly looser operator.
RECURSIVE RespectsPrecedence(_)
RespectsPrecedence(t) ==
    IsCall(t) =>
        \A i \in 1..Len(t.arguments) :
            LET a == t.arguments[i]
            IN  /\ IsCall(a) =>
                       get_precedence(OperatorOf(a)) <= get_precedence(OperatorOf(t))
                /\ RespectsPrecedence(a)

\* op(...op(op(e0, e1), e2)..., en)
RECURSIVE LeftNestedTree(_, _)
LeftNestedTree(operator, n) ==
    IF n = 1 THEN Call2(operator, Operand(0), Operand(1))
    ELSE Call2(operator, LeftNestedTree(operator, n - 1), Operand(n))

\* op(ei, op(e(i+1), ... op(e(n-1), en)))
RECURSIVE RightNestedTree(_, _, _)
RightNestedTree(operator, i, n) ==
    IF i = n - 1 THEN Call2(operator, Operand(i), Operand(n))
    ELSE Call2(operator, Operand(i), RightNestedTree(operator, i + 1, n))

\* A tree of two calls nests to the left when its first argument is the call.
NestsLeft(t) == IsCall(t.arguments[1])

\* C1 (as claimed; the code violates it): for every chain over operators of
\* the table, no call of the returned tree has as a direct argument a call to
\* an operator that binds strictly looser (has a greater rank).
C1_PrecedenceRespected ==
    (Translated /\ AllNamed(code.ops)) => RespectsPrecedence(outcome.node)

\* C2: for named operators a, b of different ranks, `x a y b z` is
\* a(x, b(y, z)) when b binds tighter (smaller rank) than a, and
\* b(a(x, y), z) when a binds tighter than b.
C2_PairGroupsByPrecedence ==
    (pc = "done" /\ Accepted /\ Len(code.ops) = 2 /\ AllNamed(code.ops)
        /\ get_precedence(code.ops[1]) # get_precedence(code.ops[2]))
    => LET a == code.ops[1]
           b == code.ops[2]
       IN  outcome =
             IF get_precedence(b) < get_precedence(a)
             THEN ReturnAST(Call2(a, Operand(0), Call2(b, Operand(1), Operand(2))))
             ELSE ReturnAST(Call2(b, Call2(a, Operand(0), Operand(1)), Operand(2)))

\* C2 witness: `x + y * z` was parsed to +(x, *(y, z)).
C2_Witness ==
    /\ pc = "done" /\ Accepted
    /\ code.ops = << <<"+">>, <<"*">> >>
    /\ outcome = ReturnAST(Call2(<<"+">>, Operand(0),
                                 Call2(<<"*">>, Operand(1), Operand(2))))

\* C3 (as claimed; the code violates it): for distinct named operators a, b
\* of one rank and one associativity (Left or Right), `x a y b z` nests in the
\* direction in which `x a y a z` nests.
C3_TiesFollowAssociativity ==
    (Translated /\ Len(code.ops) = 2 /\ AllNamed(code.ops)
        /\ code.ops[1] # code.ops[2]
        /\ get_precedence(code.ops[1]) = get_precedence(code.ops[2])
        /\ get_associativity(code.ops[1]) = get_associativity(code.ops[2])
        /\ get_associativity(code.ops[1]) # NONE)
    => LET same == visitInfix_call(<<code.ops[1], code.ops[1]>>, 1, InitialCarry)
       IN  /\ same.kind = "AST"
           /\ NestsLeft(outcome.node) = NestsLeft(same.node)

\* A chain of n >= 2 operators that uses one operator token only.
SingleOperatorChain ==
    /\ Len(code.ops) >= 2
    /\ \A i \in 1..Len(code.ops) : code.ops[i] = code.ops[1]

\* C4: a chain e0 op e1 ... op en (n >= 2) of one operator is the left-nested
\* tree when get_associativity(op) is RIGHT, the right-nested tree when it is
\* LEFT, and is rejected when it is NONE.
C4_ChainFollowsAssociativity ==
    (pc = "done" /\ Accepted /\ SingleOperatorChain)
    => LET op == visitInfix_operator(code.ops[1])
           n == Len(code.ops)
       IN  /\ get_associativity(op) = RIGHT => outcome = ReturnAST(LeftNestedTree(op, n))
           /\ get_associativity(op) = LEFT => outcome = ReturnAST(RightNestedTree(op, 0, n))
           /\ get_associativity(op) = NONE => Rejected

\* C4 witness: `e0 + e1 + e2 + e3` was parsed to +(+(+(e0, e1), e2), e3).
C4_Witness ==
    /\ pc = "done" /\ Accepted
    /\ code.ops = << <<"+">>, <<"+">>, <<"+">> >>
    /\ outcome = ReturnAST(LeftNestedTree(<<"+">>, 3))

\* C5 (as claimed; the code violates it): every chain in which a
\* None-associative operator is followed, after one operand, by the same
\* operator is rejected, whatever precedes or follows the pair.
C5_NonAssociativePairRejected ==
    (pc = "done" /\ Accepted
        /\ \E i \in 1..(Len(code.ops) - 1) :
              /\ Names(code.ops)[i] = Names(code.ops)[i + 1]
              /\ get_associativity(Names(code.ops)[i]) = NONE)
    => Rejected

\* The number of FunctionCall nodes of a tree.
RECURSIVE Calls(_)
Calls(t) == IF IsCall(t) THEN 1 + Calls(t.arguments[1]) + Calls(t.arguments[2]) ELSE 0

\* C6: Parser.parse returns None without creating a Visitor when the engine
\* reports a syntax error or the lookahead is not EOF; otherwise (for a rule
\* of the grammar) it visits exactly once and returns the Visitor's AST, or
\* None when the Visitor raised VisitorError; a tree is returned only whole.
C6_FacadeGate ==
    /\ visitors <= 1
    /\ pc # "done" => outcome = NoCall
    /\ (pc = "done" /\ EngineRejects) => (outcome = ReturnNone /\ visitors = 0)
    /\ (pc = "done" /\ Accepted) =>
          LET v == visitInfix_call(code.ops, 1, InitialCarry)
          IN  /\ visitors = 1
              /\ v.kind = "AST" => (outcome = ReturnAST(v.node) /\ raised = "")
              /\ v.kind = "VisitorError" =>
                     (outcome = ReturnNone /\ raised = "VisitorError")
    /\ outcome.kind = "AST" => Calls(outcome.node) = Len(code.ops)

\* C6 witness: a rule was matched with a syntax error, and the call ended with
\* None and no Visitor.
C6_Witness ==
    /\ pc = "done" /\ target \in ruleNames
    /\ code.errors > 0 /\ code.eof
    /\ outcome = ReturnNone /\ visitors = 0

\* C7 (as claimed; the code violates it): for every text and every target
\* Parser.parse returns an AST or None; no exception reaches the caller.
C7_TotalOption == pc = "done" => outcome.kind \in {"AST", "None"}

\* C8 (as claimed; the code violates it): when the translation needs one frame
\* more than the stack allows, Parser.parse still ends with an AST or None.
C8_DeepChainEndsNormally ==
    (pc = "done" /\ Accepted /\ depth >= recursionlimit /\ depth < Len(code.ops))
    => outcome.kind \in {"AST", "None"}

Probes ==
    {<<"a", "d", "d">>, <<"i", "d">>, <<>>, <<"+", "a">>, <<"(">>, <<"?", "?">>,
     <<"_">>, <<"+", " ">>, AlphabeticToken,
     UnknownToken, <<".">>, <<".", ".">>, <<"&", "&", "$", "&">>, <<"+", "+", "+">>}

\* The documented list of the named operators, tightest first.
DocumentedOrder ==
    << <<"@">>, <<"*", "*">>, <<"*">>, <<"/">>, <<"%">>, <<"+">>, <<"-">>, <<">", ">">>,
       <<"<", "<">>, <<":", ":">>, <<"+", "+">>, <<"-", "-">>, <<"<", "=", ">">>,
       <<"<">>, <<"<", "=">>, <<">">>, <<">", "=">>, <<"=", "=">>, <<"!", "=">>,
       <<"&">>, <<"^">>, <<"|">>, <<"&", "&">>, <<"|", "|">>, <<"|", ">">>, <<"$">> >>

\* The operators and priorities listed in src/parser/operators_test.py.
TestOperators ==
    << <<<<".">>, 1>>, <<<<"@">>, 2>>, <<<<"*", "*">>, 3>>, <<<<"*">>, 4>>,
       <<<<"/">>, 5>>, <<<<"%">>, 6>>, <<<<"+">>, 7>>, <<<<"-">>, 7>>,
       <<<<">", ">">>, 8>>, <<<<"<", "<">>, 8>>, <<<<":", ":">>, 9>>,
       <<<<"+", "+">>, 9>>, <<<<"<", "=", ">">>, 10>>, <<<<"<">>, 11>>,
       <<<<"<", "=">>, 11>>, <<<<">">>, 11>>, <<<<">", "=">>, 11>>,
       <<<<"=", "=">>, 11>>, <<<<"!", "=">>, 11>>, <<<<"&">>, 12>>, <<<<"^">>, 13>>,
       <<<<"|">>, 14>>, <<<<"&", "&">>, 15>>, <<<<"|", "|">>, 16>>,
       <<<<"|", ">">>, 17>>, <<<<"$">>, 18>> >>

\* The tokens the Visitor ranks in this call: the sentinel and the operators
\* of the chain.
RankedTokens ==
    {InitialCarry.parent_operator} \cup {Names(code.ops)[i] : i \in 1..Len(code.ops)}

\* The band of a token: 0 fails the shape check, 1 valid-shaped and absent from
\* the table, 2 named.
Band(t) == IF ~check_operator(t) THEN 0 ELSE IF t \notin NamedTokens THEN 1 ELSE 2

\* The place of a named operator in the documented list.
DocumentedIndex ==
    [t \in NamedTokens |-> CHOOSE i \in 1..Len(DocumentedOrder) : DocumentedOrder[i] = t]

\* The priority the test lists for an operator.
TestPriority ==
    [t \in {TestOperators[i][1] : i \in 1..Len(TestOperators)} |->
        TestOperators[CHOOSE i \in 1..Len(TestOperators) : TestOperators[i][1] = t][2]]

InTest(t) == t \in DOMAIN TestPriority

\* C10: a token failing the shape check ranks strictly below every
\* valid-shaped token absent from the table, which ranks strictly below every
\* named operator; the named operators rank in the documented order (@ the
\* tightest, $ the loosest), and every pair of the test with different
\* priorities is ordered as the test lists it.  Stated of the tokens the
\* Visitor ranks while it resolves a chain, and of the probes.
C10_PrecedenceBands ==
    pc = "visit" =>
      \A a \in RankedTokens \cup Probes, b \in RankedTokens \cup {<<"@">>, <<"$">>} :
        /\ Band(a) < Band(b) => get_precedence(a) < get_precedence(b)
        /\ Band(b) < Band(a) => get_precedence(b) < get_precedence(a)
        /\ (a \in NamedTokens /\ b \in NamedTokens
               /\ DocumentedIndex[a] < DocumentedIndex[b])
           => /\ get_precedence(a) <= get_precedence(b)
              /\ a = <<"@">> => get_precedence(a) < get_precedence(b)
              /\ b = <<"$">> => get_precedence(a) < get_precedence(b)
        /\ (InTest(a) /\ InTest(b))
           => /\ TestPriority[a] < TestPriority[b] => get_precedence(a) < get_precedence(b)
              /\ TestPriority[a] > TestPriority[b] => get_precedence(a) > get_precedence(b)

\* C10 witness: the Visitor ranked an unknown operator above the sentinel and
\* made it the carried root, and meets an alphabetic operator next.
C10_Witness ==
    /\ pc = "visit" /\ depth = 1
    /\ carry.parent_operator = UnknownToken
    /\ code.ops[2] = AlphabeticToken
    /\ get_precedence(visitInfix_operator(code.ops[2])) < get_precedence(UnknownToken)
    /\ get_precedence(UnknownToken) < get_precedence(<<"@">>)

(***************************************************************************)
(* The Operator Table, called directly.                                    *)
(***************************************************************************)
\* The classmethod `method` has returned.
Answered(method) == query.method = method /\ answer.kind = "returned"

ComparisonOperators ==
    {<<"<">>, <<"<", "=">>, <<">">>, <<">", "=">>, <<"<", "=", ">">>, <<"=", "=">>,
     <<"!", "=">>}

ThreeWayComparison == <<"<", "=", ">">>

\* C11, as stated: get_precedence returns one and the same rank for every
\* comparison operator  < <= > >= <=> == != .
C11_ComparisonsShareOneRank ==
    (Answered("get_precedence") /\ query.operator \in ComparisonOperators)
    => \A o \in ComparisonOperators : get_precedence(o) = answer.value

\* C11, amended: the comparison operators  < <= > >= == !=  share the rank
\* 11, and `<=>` has the rank 10, one rank tighter than them.
C11_ComparisonRanks ==
    (Answered("get_precedence") /\ query.operator \in ComparisonOperators)
    => IF query.operator = ThreeWayComparison
       THEN answer.value = 10
       ELSE /\ answer.value = 11
            /\ \A o \in ComparisonOperators \ {ThreeWayComparison} :
                  get_precedence(o) = answer.value

C11_Witness ==
    /\ Answered("get_precedence")
    /\ query.operator = ThreeWayComparison
    /\ answer.value < get_precedence(<<"=", "=">>)

\* C12: get_associativity classifies every token in exactly one way: LEFT
\* exactly for the tokens  $ @ :: ** ++ --  and the tokens that fail the shape
\* check, NONE exactly for  < <= > >= <=> == != , RIGHT for every other token
\* of valid shape; the LEFT set and the NONE set have no token in common.
C12_AssociativityClasses ==
    LET left == {<<"$">>, <<"@">>, <<":", ":">>, <<"*", "*">>, <<"+", "+">>, <<"-", "-">>}
    IN  /\ left \cap ComparisonOperators = {}
        /\ LEFT_ASSOCIATIVE_OPERATORS \cap NON_ASSOCIATIVE_OPERATORS = {}
        /\ Answered("get_associativity") =>
              LET t == query.operator
              IN  /\ answer.value \in {LEFT, NONE, RIGHT}
                  /\ answer.value = LEFT <=> (t \in left \/ ~check_operator(t))
                  /\ answer.value = NONE <=> t \in ComparisonOperators
                  /\ answer.value = RIGHT <=>
                        (check_operator(t) /\ t \notin left \cup ComparisonOperators)

C12_Witness ==
    /\ Answered("get_associativity")
    /\ query.operator = <<"a", "d", "d">>
    /\ answer.value = LEFT

\* C13: check_operator(token) is true if and only if the token is non-empty
\* and every character of it is in the punctuation class of the operators; a
\* token with a whitespace character at any position, a final newline
\* included, yields false.
C13_ShapeCheckIsCharacterClass ==
    Answered("check_operator") =>
        LET t == query.operator
        IN  answer.value = (Len(t) > 0 /\ \A i \in 1..Len(t) : t[i] \in OperatorChars)

(***************************************************************************)
(* Operators that the table does not name.                                 *)
(***************************************************************************)
\* C14: a valid operator u that the table does not name binds tighter than
\* every named operator n and looser than an alphabetic operator `__f__`:
\* `x n y u z` gives n(x, u(y, z)), `x u y n z` gives n(u(x, y), z), and
\* `x __f__ y u z __f__ w` gives u(f(x, y), f(z, w)).
C14_UnknownOperatorDefault ==
    (pc = "done" /\ Accepted) =>
        LET ops == code.ops
            f == DunderGroup(AlphabeticToken)
        IN  /\ (Len(ops) = 2 /\ ops[1] \in NamedTokens /\ ops[2] \in UnknownOperatorTokens)
               => outcome = ReturnAST(Call2(ops[1], Operand(0),
                                            Call2(ops[2], Operand(1), Operand(2))))
            /\ (Len(ops) = 2 /\ ops[1] \in UnknownOperatorTokens /\ ops[2] \in NamedTokens)
               => outcome = ReturnAST(Call2(ops[2],
                                            Call2(ops[1], Operand(0), Operand(1)),
                                            Operand(2)))
            /\ (Len(ops) = 3 /\ ops[1] = AlphabeticToken /\ ops[2] \in UnknownOperatorTokens
                    /\ ops[3] = AlphabeticToken)
               => outcome = ReturnAST(Call2(ops[2],
                                            Call2(f, Operand(0), Operand(1)),
                                            Call2(f, Operand(2), Operand(3))))

C14_Witness ==
    /\ Translated
    /\ code.ops = <<AlphabeticToken, UnknownToken, AlphabeticToken>>
    /\ OperatorOf(outcome.node) = UnknownToken

(***************************************************************************)
(* Wrapped operator names.                                                 *)
(***************************************************************************)
\* t is `__name__` with a non-empty name that has no whitespace.
WrappedName(t) ==
    /\ Len(t) >= 5
    /\ t[1] = "_" /\ t[2] = "_" /\ t[Len(t) - 1] = "_" /\ t[Len(t)] = "_"
    /\ \A i \in 3..(Len(t) - 2) : t[i] \notin Whitespace

BareName(t) == SubSeq(t, 3, Len(t) - 2)

Underscores(t) == \A i \in 1..Len(t) : t[i] = "_"

\* t without one final newline.
BeforeFinalNewline(t) ==
    IF Len(t) > 0 /\ t[Len(t)] = "\n" THEN SubSeq(t, 1, Len(t) - 1) ELSE t

\* Parser.parse translated `x op y`; the call is to what visitInfix_operator
\* returned for the token op.
OneOperatorTranslated == Translated /\ Len(code.ops) = 1

\* C16, as stated: visitInfix_operator returns the bare name of a token
\* `__name__` (name non-empty, without whitespace) and every other token
\* unchanged; a token of n >= 5 underscores gives n - 4 underscores.
C16_UnwrapsOrUnchanged ==
    OneOperatorTranslated =>
        LET t == code.ops[1]
            operator == OperatorOf(outcome.node)
        IN  /\ operator = IF WrappedName(t) THEN BareName(t) ELSE t
            /\ (Underscores(t) /\ Len(t) >= 5)
               => (Underscores(operator) /\ Len(operator) = Len(t) - 4)

\* C16, amended: visitInfix_operator returns the bare name of a token that
\* is `__name__` (name non-empty, without whitespace), alone or followed by
\* one final newline, and every other token with its leading and trailing
\* whitespace removed; a token of n >= 5 underscores gives n - 4 underscores.
C16_UnwrapsOrStrips ==
    OneOperatorTranslated =>
        LET t == code.ops[1]
            operator == OperatorOf(outcome.node)
        IN  /\ operator = IF WrappedName(BeforeFinalNewline(t))
                          THEN BareName(BeforeFinalNewline(t))
                          ELSE Strip(t)
            /\ (Underscores(t) /\ Len(t) >= 5)
               => (Underscores(operator) /\ Len(operator) = Len(t) - 4)

C16_Witness ==
    /\ OneOperatorTranslated
    /\ code.ops[1] = <<" ", "_", "_", "a", "d", "d", "_", "_", " ">>
    /\ OperatorOf(outcome.node) = AlphabeticToken

(***************************************************************************)
(* The other rules of the Visitor.                                         *)
(***************************************************************************)
\* Parser.parse ended a call on an accepted text whose tree has this form.
Visited(form) == pc = "done" /\ Accepted /\ code.form = form

\* The id that an assignment binds.
BoundId(t) == t.assignee.assignee.id

\* C15: for every named operator op, `x op y` under rule expr is
\* FunctionCall(GenericVariable(op, []), [x, y]), `__op__ = x` under rule
\* assignment is an Assignment whose assignee is
\* ParametricAssignee(Assignee(op), []), and the id that the definition
\* binds is the id that the infix use invokes.
C15_NamedOperatorBothWays ==
    /\ (Visited("infix_call") /\ Len(code.ops) = 1 /\ code.ops[1] \in NamedTokens)
       => outcome = ReturnAST(FunctionCall(GenericVariable(code.ops[1], <<>>),
                                           <<Operand(0), Operand(1)>>))
    /\ \A op \in NamedTokens :
          (Visited("assignment") /\ code.name = Wrap(op))
          => /\ outcome =
                   ReturnAST(Assignment(ParametricAssignee(Assignee(op), <<>>), Operand(0)))
             /\ BoundId(outcome.node) =
                   OperatorOf(visitInfix_call(<<op>>, 1, InitialCarry).node)

C15_Witness ==
    /\ Visited("assignment")
    /\ code.name = Wrap(<<"=", "=">>)
    /\ BoundId(outcome.node) = <<"=", "=">>

\* C17: visitPrefix_call raises the structural failure exactly when the
\* unwrapped prefix operator fails check_operator, and then no argument has
\* been translated; otherwise it returns FunctionCall(Var(op), [argument])
\* with exactly one argument.
C17_PrefixOperatorChecked ==
    Visited("prefix_call") =>
        LET op == visitInfix_operator(code.name)
        IN  IF check_operator(op)
            THEN /\ outcome = ReturnAST(FunctionCall(Var(op), <<Operand(0)>>))
                 /\ Len(outcome.node.arguments) = 1
                 /\ raised = ""
                 /\ visited = 1
            ELSE /\ outcome = ReturnNone
                 /\ raised = "VisitorError"
                 /\ visited = 0

C17_Witness ==
    /\ Visited("prefix_call")
    /\ code.name = AlphabeticToken
    /\ outcome = ReturnNone
    /\ raised = "VisitorError"

\* C18: no AST that Parser.parse returns is a ConstructorCall whose
\* constructor.id passes the shape check; a constructor named by an
\* operator-identifier makes the parse return None, and it is rejected
\* before any of its arguments is translated.
C18_NoOperatorConstructor ==
    /\ (pc = "done" /\ outcome.kind = "AST" /\ outcome.node.node = "ConstructorCall")
       => ~check_operator(outcome.node.constructor.id)
    /\ (Visited("constructor_call") /\ WrappedName(code.name)
            /\ check_operator(BareName(code.name)))
       => /\ outcome = ReturnNone
          /\ raised = "VisitorError"
          /\ visited = 0

C18_Witness ==
    /\ Visited("constructor_call")
    /\ code.name = Wrap(<<"^">>)
    /\ code.arguments = 1
    /\ outcome = ReturnNone

\* C19: visitType_def gives exactly one of the three variants, the one of
\* the body; an EmptyTypeDefinition is given only for a head without generic
\* parameters (`typedef None`), and an empty definition with generic
\* parameters (`typedef None<T>`) makes the parse return None.
C19_TypeDefinitionVariants ==
    Visited("type_def") =>
        /\ code.body = "type_instance" =>
              outcome = ReturnAST(OpaqueTypeDefinition(
                            GenericTypeVariable(code.name, code.generics), OpaqueBody))
        /\ code.body = "union_def" =>
              outcome = ReturnAST(UnionTypeDefinition(
                            GenericTypeVariable(code.name, code.generics), UnionBody))
        /\ (code.body = "empty_def" /\ code.generics = <<>>) =>
              outcome = ReturnAST(EmptyTypeDefinition(code.name))
        /\ (code.body = "empty_def" /\ code.generics # <<>>) =>
              (outcome = ReturnNone /\ raised = "VisitorError")
        /\ (outcome.kind = "AST" /\ outcome.node.node = "EmptyTypeDefinition") =>
              code.generics = <<>>

C19_Witness ==
    /\ Visited("type_def")
    /\ code.body = "empty_def"
    /\ code.generics = << <<"T">> >>
    /\ outcome = ReturnNone

Stepped == pc = "visit" /\ depth' = depth + 1

\* The incoming operator became the root: the old partial tree, applied to
\* the left operand, is its first argument.
BecameRoot(operator, left, x) ==
    /\ carry'.parent_operator = operator
    /\ Apply(carry'.tree, x) = Call2(operator, Apply(carry.tree, left), x)

\* The root was kept: the call of the incoming operator is where the
\* accumulated tree had its open argument.
WasNested(operator, left, x) ==
    /\ carry'.parent_operator = carry.parent_operator
    /\ Apply(carry'.tree, x) = Apply(carry.tree, Call2(operator, left, x))

C26_StepOnTighter ==
    Stepped =>
        LET operator == Names(code.ops)[depth + 1]
            left == Operand(depth)
            x == Operand(depth + 1)
        IN  IF \/ get_precedence(operator) < get_precedence(carry.parent_operator)
               \/ /\ operator = carry.parent_operator
                  /\ get_associativity(operator) = RIGHT
            THEN BecameRoot(operator, left, x)
            ELSE WasNested(operator, left, x)

C26_StepOnLooser ==
    Stepped =>
        LET operator == Names(code.ops)[depth + 1]
            left == Operand(depth)
            x == Operand(depth + 1)
        IN  IF \/ get_precedence(operator) > get_precedence(carry.parent_operator)
               \/ /\ operator = carry.parent_operator
                  /\ get_associativity(operator) = RIGHT
            THEN BecameRoot(operator, left, x)
            ELSE WasNested(operator, left, x)

\* C26, as stated: at each step the incoming operator becomes the carried
\* root exactly when it binds tighter than the carried root (its rank is
\* smaller) or is the same operator with Right associativity; otherwise its
\* call is nested as the second argument of the accumulated tree.
C26_RootWhenTighter == [][C26_StepOnTighter]_vars

\* C26, amended: at each step the incoming operator becomes the carried
\* root exactly when it binds looser than the carried root (its rank is
\* greater) or is the same operator with Right associativity; otherwise its
\* call is nested as the second argument of the accumulated tree.
C26_RootWhenLooser == [][C26_StepOnLooser]_vars

C26_Witness ==
    /\ pc = "visit"
    /\ depth = 2
    /\ Names(code.ops)[1] = <<"*">> /\ Names(code.ops)[2] = <<"+">>
    /\ carry.parent_operator = <<"+">>

\* C27 (as claimed; the code violates it): the resolution takes one step
\* for each operator, from left to right, and after the last operator it
\* has returned the completed tree, or it has raised the structural failure.
C27_OneStepPerOperator ==
    /\ depth <= Len(code.ops)
    /\ (pc = "done" /\ Accepted) =>
          \/ outcome.kind = "AST" /\ depth = Len(code.ops) /\ raised = ""
          \/ outcome = ReturnNone /\ raised = "VisitorError"

\* C28: the rank of the carried root never decreases from one step to the
\* next; once an operator has replaced the initial root, the carried root is
\* the function id at the root of the partial tree; the root of the returned
\* tree has the greatest rank among the operators of the chain.
C28_RootOfGreatestRank ==
    /\ [](/\ carry.parent_operator # InitialCarry.parent_operator
             => OperatorOf(Apply(carry.tree, Operand(0))) = carry.parent_operator
          /\ Translated =>
                \A i \in 1..Len(code.ops) :
                    get_precedence(Names(code.ops)[i])
                        <= get_precedence(OperatorOf(outcome.node)))
    /\ [][get_precedence(carry'.parent_operator)
              >= get_precedence(carry.parent_operator)]_vars

C28_Witness ==
    /\ Translated
    /\ Names(code.ops) = << <<"*">>, <<"+">>, <<"/">> >>
    /\ OperatorOf(outcome.node) = <<"+">>

\* The leaves and the function ids of a tree, from left to right.
RECURSIVE InOrder(_)
InOrder(t) ==
    IF IsCall(t)
    THEN InOrder(t.arguments[1]) \o <<[operator |-> OperatorOf(t)]>>
             \o InOrder(t.arguments[2])
    ELSE <<[operand |-> t]>>

\* e0 op1 e1 ... opn en
Sequence(names) ==
    [i \in 1..(2 * Len(names) + 1) |->
        IF i % 2 = 1 THEN [operand |-> Operand((i - 1) \div 2)]
        ELSE [operator |-> names[i \div 2]]]

RECURSIVE AllBinary(_)
AllBinary(t) ==
    IsCall(t) => /\ Len(t.arguments) = 2
                 /\ AllBinary(t.arguments[1])
                 /\ AllBinary(t.arguments[2])

\* C29: the tree returned for an accepted chain e0 op1 e1 ... opn en has
\* exactly n calls, each with two arguments; read from left to right it is
\* e0 op1 e1 ... opn en, every operand and operator once; the name `id` of
\* the initial carry is a function id only if the chain has `__id__`.
C29_OnlyRebrackets ==
    Translated =>
        /\ Calls(outcome.node) = Len(code.ops)
        /\ AllBinary(outcome.node)
        /\ InOrder(outcome.node) = Sequence(Names(code.ops))
        /\ (\A i \in 1..Len(code.ops) : Names(code.ops)[i] # InitialCarry.parent_operator)
           => \A i \in 1..Len(InOrder(outcome.node)) :
                  InOrder(outcome.node)[i] # [operator |-> InitialCarry.parent_operator]

C29_Witness ==
    /\ Translated
    /\ code.ops = << <<"+">>, SentinelToken >>
    /\ outcome.node = Call2(<<"+">>, Operand(0), Call2(<<"i", "d">>, Operand(1), Operand(2)))

\* C30 (as claimed; the code violates it): the name that visitInfix_operator
\* returns for a token text is the name it returns for the text without its
\* surrounding whitespace.
C30_WhitespaceIgnored ==
    OneOperatorTranslated =>
        OperatorOf(outcome.node) = visitInfix_operator(Strip(code.ops[1]))

(***************************************************************************)
(* Function types.                                                         *)
(***************************************************************************)
\* C21 (as claimed; the code violates it): visitFn_type yields a
\* FunctionType whose argument_types is the list of the element types of
\* the head when the head is a tuple type, and the one-element list of the
\* head type otherwise: `a->b`, `(a)->b`, `(a,)->b` give FunctionType([a], b),
\* `(a,b)->c` gives FunctionType([a, b], c), `()->b` gives no argument.
C21_HeadFlattened ==
    Visited("fn_type") =>
        LET head == code.head.type
        IN  outcome = ReturnAST(FunctionType(
                          IF head.node = "TupleType" THEN head.types ELSE <<head>>,
                          code.tail))

(***************************************************************************)
(* The JSON projection.                                                    *)
(***************************************************************************)
\* The key the specification gives a field.
KeyOf(attr) == IF attr = "type" THEN "type_" ELSE attr

\* out is a mapping with the one key that is the class name of the node.
IsWrapperOf(value, out) == out.py = "dict" /\ DOMAIN out.entries = {value.node}

\* The mapping of the fields of a node, with or without a wrapper around it.
FieldsOf(value, out) == IF IsWrapperOf(value, out) THEN out.entries[value.node] ELSE out

\* The declared type is a union of several alternatives that is not
\* Optional of the class of the node.
IsProperUnion(value, type_) ==
    /\ type_.origin = "Union"
    /\ Len(type_.args) > 1
    /\ Range(type_.args) # {"NoneType", value.node}

RECURSIVE WrappedAsDeclared(_, _, _)
WrappedAsDeclared(value, type_, out) ==
    IF IsASTNode(value)
    THEN \/ value.node = "AtomicTypeEnum"
         \/ /\ IsWrapperOf(value, out) <=> IsProperUnion(value, type_)
            /\ LET fields == FieldsOf(value, out)
                   declared == match_args(value.node)
               IN  /\ fields.py = "dict"
                   /\ ~IsWrapperOf(value, fields)
                   /\ \A i \in DOMAIN declared :
                          /\ KeyOf(declared[i].attr) \in DOMAIN fields.entries
                          /\ WrappedAsDeclared(value[declared[i].attr], declared[i].type,
                                               fields.entries[KeyOf(declared[i].attr)])
    ELSE IF value.py = "list"
    THEN /\ out.py = "list"
         /\ Len(out.items) = Len(value.items)
         /\ \A i \in DOMAIN value.items :
                WrappedAsDeclared(value.items[i], type_.args[1], out.items[i])
    ELSE TRUE

\* C22: in every projection a child node is wrapped in a mapping keyed by its
\* class name exactly when the declared type of its field, or of the element
\* of its list, is a union of more than one alternative that is not Optional
\* of its class; otherwise it is the bare mapping of its fields, and the
\* root is never wrapped.
C22_WrappedExactlyUnderUnions ==
    \A i \in DOMAIN json :
        /\ ~IsWrapperOf(self, json[i])
        /\ WrappedAsDeclared(self, Class(self.node), json[i])

\* A Block with an assignment was projected: the Assignment (declared
\* list[Assignment]) is bare, the expression (declared Expression) is wrapped.
C22_Witness ==
    /\ self.node = "Block"
    /\ Len(self.assignments.items) > 0
    /\ Len(json) > 0
    /\ DOMAIN json[1].entries.assignments.items[1].entries = {"assignee", "expression"}
    /\ IsWrapperOf(self.expression, json[1].entries.expression)

RECURSIVE NoTypeKey(_)
NoTypeKey(out) ==
    IF out.py = "dict"
    THEN /\ "type" \notin DOMAIN out.entries
         /\ \A k \in DOMAIN out.entries : NoTypeKey(out.entries[k])
    ELSE IF out.py = "list"
    THEN \A i \in DOMAIN out.items : NoTypeKey(out.items[i])
    ELSE TRUE

RECURSIVE KeysAsDeclared(_, _)
KeysAsDeclared(value, out) ==
    IF IsASTNode(value)
    THEN \/ value.node = "AtomicTypeEnum"
         \/ LET fields == FieldsOf(value, out)
                declared == match_args(value.node)
            IN  /\ fields.py = "dict"
                /\ DOMAIN fields.entries = {KeyOf(declared[i].attr) : i \in DOMAIN declared}
                /\ \A i \in DOMAIN declared :
                       KeysAsDeclared(value[declared[i].attr],
                                      fields.entries[KeyOf(declared[i].attr)])
    ELSE IF value.py = "list"
    THEN /\ out.py = "list"
         /\ Len(out.items) = Len(value.items)
         /\ \A i \in DOMAIN value.items : KeysAsDeclared(value.items[i], out.items[i])
    ELSE TRUE

\* C23: at every depth of a projection the field named type is emitted under
\* the key type_, no mapping has the key type, and every other field is
\* emitted under its declared name.
C23_TypeRenamedAtEveryDepth ==
    \A i \in DOMAIN json : NoTypeKey(json[i]) /\ KeysAsDeclared(self, json[i])

\* A TypeItem with a type was projected: type_ at the root and type_ again in
\* the AtomicType below it.
C23_Witness ==
    /\ self.node = "TypeItem"
    /\ self.type # PyNone
    /\ Len(json) > 0
    /\ DOMAIN json[1].entries = {"id", "type_"}
    /\ DOMAIN json[1].entries.type_.entries.AtomicType.entries = {"type_"}

RECURSIVE ListsNullsAndLeaves(_, _)
ListsNullsAndLeaves(value, out) ==
    IF IsASTNode(value)
    THEN IF value.node = "AtomicTypeEnum" THEN out = PyStr(value.name)
         ELSE LET fields == FieldsOf(value, out)
                  declared == match_args(value.node)
              IN  /\ fields.py = "dict"
                  /\ \A i \in DOMAIN declared :
                         /\ KeyOf(declared[i].attr) \in DOMAIN fields.entries
                         /\ ListsNullsAndLeaves(value[declared[i].attr],
                                                fields.entries[KeyOf(declared[i].attr)])
    ELSE IF value.py = "list"
    THEN /\ out.py = "list"
         /\ Len(out.items) = Len(value.items)
         /\ \A i \in DOMAIN value.items :
                /\ ListsNullsAndLeaves(value.items[i], out.items[i])
                /\ IF IsASTNode(value.items[i])
                   THEN FieldsOf(value.items[i], out.items[i]) = to_json(value.items[i])
                   ELSE out.items[i] = value.items[i]
    ELSE IF value.py = "NoneType" THEN out = PyNone
    ELSE TRUE

\* C25: every list-typed field is projected as an array of the same length
\* whose i-th element is the projection of the i-th child, in order; an
\* absent optional field is projected as null; an AtomicTypeEnum leaf is
\* projected as the string of its name.
C25_ListsNullsAndEnumNames ==
    \A i \in DOMAIN json : ListsNullsAndLeaves(self, json[i])

\* A union type definition with two different items was projected: an array
\* of two, a null and the name of an enum member.
C25_Witness ==
    /\ self.node = "UnionTypeDefinition"
    /\ Len(self.items.items) = 2
    /\ self.items.items[1].type = PyNone
    /\ self.items.items[2].type # PyNone
    /\ Len(json) > 0
    /\ Len(json[1].entries.items.items) = 2
    /\ json[1].entries.items.items[1].entries.type_ = PyNone
    /\ json[1].entries.items.items[2].entries.type_.entries.AtomicType.entries.type_
           = PyStr("INT")

====
